---- MODULE Spec2Model ----
(***************************************************************************)
(* PageDetails (src/src/components/page-details.jsx): the component that   *)
(* loads a page, resolves the change token of the route to a pair of       *)
(* versions, and displays the pair, redirects to a valid change, or shows  *)
(* "No saved versions of this page".                                       *)
(*                                                                         *)
(* Strings that the code takes apart (the change token, version uuids) are *)
(* sequences of one-character strings; a value that may be undefined or    *)
(* null is None (<<>>) or Some(v) (<<v>>).                                 *)
(***************************************************************************)
EXTENDS Integers, Sequences, FiniteSets

\* ---------------------------------------------------------------- bounds
MaxTokenLen == 3    \* longest free-form change token the environment supplies
MaxPending == 2     \* getPage requests in flight at once
MaxUuidLen == 2     \* longest version uuid of the codec session

\* ------------------------------------------------------------- constants
EscapeKeyCode == 27

\* ------------------------------------------------------------- optionals
None == <<>>
Some(v) == <<v>>
IsSome(o) == o # <<>>
Get(o) == o[1]

\* ---------------------------------------------------------------- inputs
Dot == "."
Chars == {"a", Dot}
PageIds == {"x", "y"}
\* the version uuids the backend has under each page (uuids are unique)
VersionUuids(p) == IF p = "x" THEN {<<"a">>, <<"b">>} ELSE {<<"c">>}
AllUuids == UNION {VersionUuids(p) : p \in PageIds}
KeyCodes == {EscapeKeyCode, 13}

SeqsUpTo(S, n) == UNION {[1..k -> S] : k \in 0..n}

Version(u, t) == [uuid |-> u, capture_time |-> t]

\* a history as the backend returns it: unique uuids, capture time descending
\* (equal times allowed). The code only compares capture times, so the times
\* of a history are taken up to order: 1..n without gaps.
IsHistory(h) ==
  /\ \A i, j \in 1..Len(h) : i # j => h[i].uuid # h[j].uuid
  /\ \A i \in 1..Len(h) : i < Len(h) => h[i].capture_time >= h[i + 1].capture_time
  /\ \A i \in 1..Len(h) : \A t \in 1..h[i].capture_time :
        \E j \in 1..Len(h) : h[j].capture_time = t

HistoriesOver(uuids) ==
  {h \in SeqsUpTo({Version(u, t) : u \in uuids, t \in 1..Cardinality(uuids)},
                  Cardinality(uuids)) : IsHistory(h)}

Histories(p) == HistoriesOver(VersionUuids(p))

\* a session that stays on page "x": the page may have one more version
OnePageUuids == VersionUuids("x") \cup {<<"d">>}

Page(p, h) == [uuid |-> p, versions |-> h]

\* ------------------------------------------------------------------ codec
\* mutant: a single dot between the two uuids
Template_oneDot(fromUuid, toUuid) == fromUuid \o <<Dot>> \o toUuid

\* `${from.uuid}..${to.uuid}`
Template(fromUuid, toUuid) == fromUuid \o <<Dot, Dot>> \o toUuid

\* first index of ".." in s, 0 when there is none
FirstSep(s) ==
  LET hits == {i \in 1..Len(s) : i < Len(s) /\ s[i] = Dot /\ s[i + 1] = Dot}
  IN  IF hits = {} THEN 0 ELSE CHOOSE i \in hits : \A j \in hits : i <= j

\* String.prototype.split('..'): every piece, left to right
RECURSIVE Split(_)
Split(s) ==
  LET i == FirstSep(s)
  IN  IF i = 0 THEN <<s>>
      ELSE <<SubSeq(s, 1, i - 1)>> \o Split(SubSeq(s, i + 2, Len(s)))

\* ----------------------------------------------------------- the component
\* Array.prototype.find(v => v.uuid === id); id undefined (None) matches nothing
FindUuid(versions, id) ==
  LET hits == {i \in 1..Len(versions) : IsSome(id) /\ versions[i].uuid = Get(id)}
  IN  IF hits = {} THEN None
      ELSE Some(versions[CHOOSE i \in hits : \A j \in hits : i <= j])

\* mutant: the last match, the oldest version, instead of the first
FindOlder_oldest(versions, t) ==
  LET hits == {i \in 1..Len(versions) : versions[i].capture_time < t}
  IN  IF hits = {} THEN None
      ELSE Some(versions[CHOOSE i \in hits : \A j \in hits : i >= j])

\* Array.prototype.find(version => version.capture_time < t)
FindOlder(versions, t) ==
  LET hits == {i \in 1..Len(versions) : versions[i].capture_time < t}
  IN  IF hits = {} THEN None
      ELSE Some(versions[CHOOSE i \in hits : \A j \in hits : i <= j])

\* const [fromId, toId] = parts: a missing second piece is undefined
Destructure(parts) ==
  [fromId |-> parts[1],
   toId |-> IF Len(parts) >= 2 THEN Some(parts[2]) ELSE None]

\* const [fromId, toId] = (this.props.match.params.change || '').split('..')
Decode(chg) == Destructure(Split(IF IsSome(chg) THEN Get(chg) ELSE <<>>))

\* mutant: an unknown from drops from alone and keeps to
Validate_keepsTo(fromId, from, to) ==
  IF ~IsSome(to) \/ (fromId # <<>> /\ ~IsSome(from))
  THEN [from |-> None, to |-> to]
  ELSE [from |-> from, to |-> to]

\* mutant: a from captured after to is rejected as well
Validate_ordered(fromId, from, to) ==
  IF \/ ~IsSome(to)
     \/ (fromId # <<>> /\ ~IsSome(from))
     \/ (IsSome(from) /\ IsSome(to)
           /\ Get(from).capture_time > Get(to).capture_time)
  THEN [from |-> None, to |-> None]
  ELSE [from |-> from, to |-> to]

\* if (!to || fromId && !from) { to = from = null; } return {from, to};
Validate(fromId, from, to) ==
  IF ~IsSome(to) \/ (fromId # <<>> /\ ~IsSome(from))
  THEN [from |-> None, to |-> None]
  ELSE [from |-> from, to |-> to]

\* mutant: both find calls look for fromId
Lookup_fromIdTwice(versions, ids) ==
  Validate(ids.fromId, FindUuid(versions, Some(ids.fromId)),
           FindUuid(versions, Some(ids.fromId)))

\* the two find calls on the decoded ids
Lookup(versions, ids) ==
  Validate(ids.fromId, FindUuid(versions, Some(ids.fromId)),
           FindUuid(versions, ids.toId))

_versionsToRender(page, chg) == Lookup(page.versions, Decode(chg))

\* the route a URL `/page/${pageId}/${changeId}` is matched to: an empty last
\* segment leaves the optional change parameter undefined
Url(pid, changeId) ==
  [pageId |-> pid, change |-> IF changeId = <<>> THEN None ELSE Some(changeId)]

\* mutant: a token is produced when only one of the two versions is given
_getChangeUrl_partial(from, to, page, routePageId) ==
  Url(IF IsSome(page) THEN Get(page).uuid ELSE routePageId,
      IF IsSome(from) \/ IsSome(to)
      THEN Template(IF IsSome(from) THEN Get(from).uuid ELSE <<>>,
                    IF IsSome(to) THEN Get(to).uuid ELSE <<>>)
      ELSE <<>>)

\* mutant: the token names to alone
_getChangeUrl_toOnly(from, to, page, routePageId) ==
  Url(IF IsSome(page) THEN Get(page).uuid ELSE routePageId,
      IF IsSome(from) /\ IsSome(to)
      THEN Template(<<>>, Get(to).uuid) ELSE <<>>)

_getChangeUrl(from, to, page, routePageId) ==
  Url(IF IsSome(page) THEN Get(page).uuid ELSE routePageId,
      IF IsSome(from) /\ IsSome(to)
      THEN Template(Get(from).uuid, Get(to).uuid) ELSE <<>>)

\* if (from && to) return <Redirect .../>; return <div className="error">...
RedirectOrError(from, to, routePageId) ==
  IF IsSome(from) /\ IsSome(to)
  THEN [kind |-> "Redirect", from |-> from, to |-> to,
        url |-> _getChangeUrl(from, to, None, routePageId)]
  ELSE [kind |-> "NoVersions", from |-> None, to |-> None, url |-> None]

\* let from = versions.find(version => version.capture_time < to.capture_time) || to
OlderOrSame(older, to) == IF IsSome(older) THEN older ELSE to

DefaultFrom(versions, to) ==
  OlderOrSame(IF IsSome(to) THEN FindOlder(versions, Get(to).capture_time)
              ELSE None, to)

DefaultChange(versions, to, routePageId) ==
  RedirectOrError(DefaultFrom(versions, to), to, routePageId)

\* mutant: always the latest version, a resolved to is ignored
DefaultTo_latestOnly(versions, versionData) ==
  IF Len(versions) > 0 THEN Some(versions[1]) ELSE None

\* let to = versionData.to || this.state.page.versions[0]
DefaultTo(versions, versionData) ==
  IF IsSome(versionData.to) THEN versionData.to
  ELSE IF Len(versions) > 0 THEN Some(versions[1]) ELSE None

ChangeOf(versions, versionData, routePageId) ==
  IF ~(IsSome(versionData.from) /\ IsSome(versionData.to))
  THEN DefaultChange(versions, DefaultTo(versions, versionData), routePageId)
  ELSE [kind |-> "ChangeView", from |-> versionData.from,
        to |-> versionData.to, url |-> None]

_renderChange(page, routePageId, chg) ==
  ChangeOf(page.versions, _versionsToRender(page, chg), routePageId)

render(page, routePageId, chg) ==
  IF ~IsSome(page)
  THEN [kind |-> "Loading", from |-> None, to |-> None, url |-> None]
  ELSE _renderChange(Get(page), routePageId, chg)

\* Array.prototype.findIndex(page => page.uuid === uuid): 0-based, -1 if none
FindIndex(allPages, uuid) ==
  LET hits == {i \in 1..Len(allPages) : allPages[i].uuid = uuid}
  IN  IF hits = {} THEN -1
      ELSE (CHOOSE i \in hits : \A j \in hits : i <= j) - 1

\* allPages[k]: undefined outside 0..length-1
At(allPages, k) ==
  IF k >= 0 /\ k < Len(allPages) THEN Some(allPages[k + 1]) ELSE None

\* target ? `/page/${target.uuid}` : '#'; '#' is None, a link is Some(uuid)
PageLink(target) == IF IsSome(target) THEN Some(Get(target).uuid) ELSE None

\* mutant: no test of index >= 0
NextPage_unguarded(allPages, index) == At(allPages, index + 1)

\* const nextPage = index >= 0 ? allPages[index + 1] : null
NextPage(allPages, index) ==
  IF index >= 0 THEN At(allPages, index + 1) ELSE None

PagerLinks(allPages, index) ==
  [previous |-> PageLink(At(allPages, index - 1)),
   next |-> PageLink(NextPage(allPages, index))]

\* no pager without this.props.pages
_renderPager(pgs, page) ==
  IF ~IsSome(pgs) THEN None
  ELSE Some(PagerLinks(Get(pgs), FindIndex(Get(pgs), page.uuid)))

\* ----------------------------------------------------------------- state
VARIABLES
  phase,      \* "constructed", "mounted" or "unmounted"
  path,       \* "page" while the route names a page, "root" after history.push('/')
  pageId,     \* this.props.match.params.pageId
  change,     \* this.props.match.params.change: None or Some(token)
  via,        \* how the current location was produced
  pages,      \* this.props.pages: None or Some(list of pages)
  statePage,  \* this.state.page: None or Some(page)
  pending,    \* getPage(p) requests in flight, counted per page id
  microtask,  \* the page of an already resolved promise whose then-callback is queued
  listeners,  \* keydown listeners this component has on window
  db          \* the backend's history of every page

vars == <<phase, path, pageId, change, via, pages, statePage, pending,
          microtask, listeners, db>>

\* change tokens the environment may put in the route: free text and the
\* tokens the application's own links carry
Tokens ==
  SeqsUpTo(Chars, MaxTokenLen) \cup {Template(u, v) : u, v \in AllUuids}
Changes == {None} \cup {Some(t) : t \in Tokens}

\* the lists of known pages a parent may pass: none, or one in which only
\* "x" carries its versions
PagesChoices(d) ==
  {None, Some(<<[uuid |-> "x", versions |-> Some(d["x"])],
                [uuid |-> "y", versions |-> None]>>)}

PendingCount == pending["x"] + pending["y"]

\* what is on screen: render() of the current props and state
View == render(statePage, pageId, change)

\* nothing else runs while a then-callback is queued or a <Redirect> is mounting
Idle == phase = "mounted" /\ ~IsSome(microtask) /\ View.kind # "Redirect"

Init ==
  /\ phase = "constructed"
  /\ path = "page"
  /\ pageId \in PageIds
  /\ change = None
  /\ via = "external"
  /\ \E hx \in Histories("x"), hy \in Histories("y") :
       db = [p \in PageIds |-> IF p = "x" THEN hx ELSE hy]
  /\ pages \in PagesChoices(db)
  /\ statePage = None
  /\ pending = [p \in PageIds |-> 0]
  /\ microtask = None
  /\ listeners = 0

\* mutant: the first entry with the uuid is taken, with or without versions
FromList_anyEntry(pid) ==
  IF ~IsSome(pages) THEN None
  ELSE LET list == Get(pages)
           hits == {i \in 1..Len(list) : list[i].uuid = pid}
       IN  IF hits = {} THEN None
           ELSE LET e == list[CHOOSE i \in hits : \A j \in hits : i <= j]
                IN  Some(Page(e.uuid, IF IsSome(e.versions)
                                      THEN Get(e.versions) ELSE <<>>))

\* this.props.pages && this.props.pages.find(page => page.uuid === pid && !!page.versions)
FromList(pid) ==
  IF ~IsSome(pages) THEN None
  ELSE LET list == Get(pages)
           hits == {i \in 1..Len(list) :
                      list[i].uuid = pid /\ IsSome(list[i].versions)}
       IN  IF hits = {} THEN None
           ELSE LET e == list[CHOOSE i \in hits : \A j \in hits : i <= j]
                IN  Some(Page(e.uuid, Get(e.versions)))

\* _loadPage(pid): the promise is resolved already (page from the list) or a
\* getPage request goes out
CanLoad(pid) == IsSome(FromList(pid)) \/ PendingCount < MaxPending

_loadPage(pid) ==
  IF IsSome(FromList(pid))
  THEN /\ microtask' = FromList(pid)
       /\ UNCHANGED pending
  ELSE /\ pending' = [pending EXCEPT ![pid] = @ + 1]
       /\ UNCHANGED microtask

\* mutant: every prop update loads the page
componentWillReceiveProps_always(nextPageId) == _loadPage(nextPageId)

\* componentWillReceiveProps(nextProps)
componentWillReceiveProps(nextPageId) ==
  IF nextPageId # pageId THEN _loadPage(nextPageId)
  ELSE UNCHANGED <<pending, microtask>>

\* the router hands the component the route of a location
Route(url, how) ==
  /\ (url.pageId # pageId => CanLoad(url.pageId))
  /\ componentWillReceiveProps(url.pageId)
  /\ pageId' = url.pageId
  /\ change' = url.change
  /\ via' = how

\* componentWillMount, the first render, componentDidMount
Mount ==
  /\ phase = "constructed"
  /\ _loadPage(pageId)
  /\ phase' = "mounted"
  /\ listeners' = listeners + 1
  /\ UNCHANGED <<path, pageId, change, via, pages, statePage, db>>

\* the user follows a link or edits the address: new route parameters
Navigate(p, c) ==
  /\ Idle
  /\ <<p, c>> # <<pageId, change>>
  /\ Route([pageId |-> p, change |-> c], "external")
  /\ UNCHANGED <<phase, path, pages, statePage, listeners, db>>

\* setState({page}) in the then-callback of a getPage(p) that resolved
LoadResolve(p) ==
  /\ phase # "constructed"
  /\ ~IsSome(microtask)
  /\ phase = "mounted" => View.kind # "Redirect"
  /\ pending[p] > 0
  /\ pending' = [pending EXCEPT ![p] = @ - 1]
  /\ statePage' = IF phase = "mounted" THEN Some(Page(p, db[p])) ELSE statePage
  /\ UNCHANGED <<phase, path, pageId, change, via, pages, microtask, listeners, db>>

\* mutant: a rejection commits a page without versions
Rejected_commitsEmpty(p) ==
  /\ pending' = [pending EXCEPT ![p] = @ - 1]
  /\ statePage' = IF phase = "mounted" THEN Some(Page(p, <<>>)) ELSE statePage
  /\ UNCHANGED <<phase, path, pageId, change, via, pages, microtask, listeners, db>>

\* a rejected promise: .then(page => ...) has no rejection handler
Rejected(p) ==
  /\ pending' = [pending EXCEPT ![p] = @ - 1]
  /\ UNCHANGED <<phase, path, pageId, change, via, pages, statePage, microtask,
                 listeners, db>>

\* getPage(p) rejects: the then-callback never runs
LoadReject(p) ==
  /\ phase # "constructed"
  /\ ~IsSome(microtask)
  /\ phase = "mounted" => View.kind # "Redirect"
  /\ pending[p] > 0
  /\ Rejected(p)

\* setState({page}) in the then-callback of Promise.resolve(fromList)
RunMicrotask ==
  /\ IsSome(microtask)
  /\ phase = "mounted" => View.kind # "Redirect"
  /\ microtask' = None
  /\ statePage' = IF phase = "mounted" THEN microtask ELSE statePage
  /\ UNCHANGED <<phase, path, pageId, change, via, pages, pending, listeners, db>>

\* mutant: <Redirect push to={url} />, the corrected location is pushed
PerformRedirect_push ==
  /\ phase = "mounted"
  /\ View.kind = "Redirect"
  /\ Route(View.url, "push")
  /\ UNCHANGED <<phase, path, pages, statePage, listeners, db>>

\* <Redirect to={url} /> mounts: history.replace(url), and the new route arrives
PerformRedirect ==
  /\ phase = "mounted"
  /\ View.kind = "Redirect"
  /\ Route(View.url, "redirect")
  /\ UNCHANGED <<phase, path, pages, statePage, listeners, db>>

\* _navigateToChange(from, to, page, replace), called by the ChangeView on screen
_navigateToChange(from, to, page, replace) ==
  /\ Idle
  /\ View.kind = "ChangeView"
  /\ Route(_getChangeUrl(from, to, page, pageId),
           IF replace THEN "replace" ELSE "push")
  /\ UNCHANGED <<phase, path, pages, statePage, listeners, db>>

\* mutant: the listener is not removed
componentWillUnmount_leak ==
  /\ phase' = "unmounted"
  /\ listeners' = listeners

\* componentWillUnmount
componentWillUnmount ==
  /\ phase' = "unmounted"
  /\ listeners' = listeners - 1

\* mutant: the comparison with the Escape key code is inverted
KeyDown_inverted(keyCode) ==
  /\ IF keyCode # EscapeKeyCode
     THEN /\ path' = "root"
          /\ via' = "push"
          /\ componentWillUnmount
     ELSE UNCHANGED <<path, via, phase, listeners>>
  /\ UNCHANGED <<pageId, change, pages, statePage, pending, microtask, db>>

\* if (event.keyCode === 27) this.props.history.push('/'): the push takes
\* the component off screen
KeyDown(keyCode) ==
  /\ IF keyCode = EscapeKeyCode
     THEN /\ path' = "root"
          /\ via' = "push"
          /\ componentWillUnmount
     ELSE UNCHANGED <<path, via, phase, listeners>>
  /\ UNCHANGED <<pageId, change, pages, statePage, pending, microtask, db>>

\* handleEvent(event), called by the window for a keydown event
handleEvent(keyCode) ==
  /\ Idle
  /\ KeyDown(keyCode)

\* the router takes the component off screen (the user went elsewhere)
Unmount ==
  /\ Idle
  /\ componentWillUnmount
  /\ UNCHANGED <<path, pageId, change, via, pages, statePage, pending,
                 microtask, db>>

OptVersions == {None} \cup
  (IF IsSome(statePage)
   THEN {Some(Get(statePage).versions[i]) : i \in 1..Len(Get(statePage).versions)}
   ELSE {})

Next ==
  \/ Mount
  \/ \E p \in PageIds : LoadResolve(p)
  \/ \E p \in PageIds : LoadReject(p)
  \/ RunMicrotask
  \/ PerformRedirect
  \/ \E p \in PageIds, c \in Changes : Navigate(p, c)
  \/ \E from \in OptVersions, to \in OptVersions, page \in {None, statePage},
        replace \in BOOLEAN : _navigateToChange(from, to, page, replace)
  \/ \E k \in KeyCodes : handleEvent(k)
  \/ Unmount

Spec == Init /\ [][Next]_vars

\* ------------------------------------------------ a session on one page
\* The route never leaves page "x"; its history is drawn from a wider set.
TokensOnePage ==
  SeqsUpTo(Chars, MaxTokenLen)
    \cup {Template(u, v) : u, v \in OnePageUuids \cup VersionUuids("y")}
ChangesOnePage == {None} \cup {Some(t) : t \in TokensOnePage}

InitOnePage ==
  /\ phase = "constructed"
  /\ path = "page"
  /\ pageId = "x"
  /\ change = None
  /\ via = "external"
  /\ \E hx \in HistoriesOver(OnePageUuids) :
       db = [p \in PageIds |-> IF p = "x" THEN hx ELSE <<>>]
  /\ pages \in PagesChoices(db)
  /\ statePage = None
  /\ pending = [p \in PageIds |-> 0]
  /\ microtask = None
  /\ listeners = 0

NextOnePage ==
  \/ Mount
  \/ LoadResolve("x")
  \/ LoadReject("x")
  \/ RunMicrotask
  \/ PerformRedirect
  \/ \E c \in ChangesOnePage : Navigate("x", c)
  \/ \E from \in OptVersions, to \in OptVersions, page \in {None, statePage},
        replace \in BOOLEAN : _navigateToChange(from, to, page, replace)
  \/ \E k \in KeyCodes : handleEvent(k)
  \/ Unmount

SpecOnePage == InitOnePage /\ [][NextOnePage]_vars

\* ------------------------------------- a session without overlapping loads
\* The route moves to another page only when no getPage request is in flight,
\* so no result can arrive for a page the route has left.
Serial == pageId' # pageId => PendingCount = 0

NextSerial ==
  \/ Mount
  \/ \E p \in PageIds : LoadResolve(p)
  \/ \E p \in PageIds : LoadReject(p)
  \/ RunMicrotask
  \/ PerformRedirect
  \/ \E p \in PageIds, c \in Changes : Navigate(p, c) /\ Serial
  \/ \E from \in OptVersions, to \in OptVersions, page \in {None, statePage},
        replace \in BOOLEAN :
          _navigateToChange(from, to, page, replace) /\ Serial
  \/ \E k \in KeyCodes : handleEvent(k)
  \/ Unmount

SpecSerial == Init /\ [][NextSerial]_vars

\* ------------------------------------------- a session with repeated mounts
\* After the component went off screen the router constructs a new one for a
\* page route. Promises of the old one can only call setState on an unmounted
\* component, which does nothing, so they are dropped.
Remount(p, c) ==
  /\ phase = "unmounted"
  /\ phase' = "constructed"
  /\ path' = "page"
  /\ pageId' = p
  /\ change' = c
  /\ via' = "external"
  /\ statePage' = None
  /\ pending' = [q \in PageIds |-> 0]
  /\ microtask' = None
  /\ UNCHANGED <<pages, listeners, db>>

NextLifecycle ==
  \/ Next
  \/ \E p \in PageIds, c \in Changes : Remount(p, c)

SpecLifecycle == Init /\ [][NextLifecycle]_vars

\* --------------------------------------------- a session among sibling pages
\* The parent passes any list of distinct pages out of "x", "y" and a third
\* page "z"; the entry of "x" may carry its versions. The user moves between
\* pages by the pager's links, which carry no change token.
SiblingIds == PageIds \cup {"z"}
SiblingEntries(d) ==
  {[uuid |-> u, versions |-> None] : u \in SiblingIds}
    \cup {[uuid |-> "x", versions |-> Some(d["x"])]}
SiblingLists(d) ==
  {l \in SeqsUpTo(SiblingEntries(d), Cardinality(SiblingIds)) :
     \A i, j \in 1..Len(l) : i # j => l[i].uuid # l[j].uuid}

InitSiblings ==
  /\ phase = "constructed"
  /\ path = "page"
  /\ pageId = "x"
  /\ change = None
  /\ via = "external"
  /\ \E hx \in Histories("x"), hy \in Histories("y") :
       db = [p \in PageIds |-> IF p = "x" THEN hx ELSE hy]
  /\ pages \in {None} \cup {Some(l) : l \in SiblingLists(db)}
  /\ statePage = None
  /\ pending = [p \in PageIds |-> 0]
  /\ microtask = None
  /\ listeners = 0

\* the pager on screen: None while loading or without this.props.pages
Pager == IF IsSome(statePage) THEN _renderPager(pages, Get(statePage)) ELSE None

\* the user follows <Link to={previousUrl}> or <Link to={nextUrl}>
FollowPager(link) ==
  /\ IsSome(Pager)
  /\ link \in {Get(Pager).previous, Get(Pager).next}
  /\ IsSome(link)
  /\ Get(link) \in PageIds
  /\ Navigate(Get(link), None)

NextSiblings ==
  \/ Mount
  \/ \E p \in PageIds : LoadResolve(p)
  \/ RunMicrotask
  \/ PerformRedirect
  \/ \E link \in {Some(p) : p \in PageIds} : FollowPager(link)

SpecSiblings == InitSiblings /\ [][NextSiblings]_vars

\* ------------------------------------------------- a session on the codec
\* The route stays on page "x", whose history has up to two versions with
\* uuids of one or two characters, dots included.
CodecUuids == SeqsUpTo(Chars, MaxUuidLen) \ {<<>>}
CodecHistories == UNION {HistoriesOver({u, v}) : u, v \in CodecUuids}

InitCodec ==
  /\ phase = "constructed"
  /\ path = "page"
  /\ pageId = "x"
  /\ change = None
  /\ via = "external"
  /\ \E hx \in CodecHistories :
       db = [p \in PageIds |-> IF p = "x" THEN hx ELSE <<>>]
  /\ pages = None
  /\ statePage = None
  /\ pending = [p \in PageIds |-> 0]
  /\ microtask = None
  /\ listeners = 0

NextCodec ==
  \/ Mount
  \/ LoadResolve("x")
  \/ PerformRedirect
  \/ \E c \in Changes : Navigate("x", c)
  \/ \E from \in OptVersions, to \in OptVersions, replace \in BOOLEAN :
        _navigateToChange(from, to, None, replace)

SpecCodec == InitCodec /\ [][NextCodec]_vars

\* ============================================================== properties
Mounted == phase = "mounted"
Committed == Mounted /\ IsSome(statePage)
\* the committed page's history and the token of the route
Hist == Get(statePage).versions
Tok == IF IsSome(change) THEN Get(change) ELSE <<>>
HistUuids == {Hist[i].uuid : i \in 1..Len(Hist)}

\* f is the first version of h, in history order, captured strictly before t,
\* or t itself when h has none
IsFirstOlderOrSelf(h, t, f) ==
  \/ \E k \in 1..Len(h) :
       /\ f = h[k]
       /\ h[k].capture_time < t.capture_time
       /\ \A j \in 1..(k - 1) : h[j].capture_time >= t.capture_time
  \/ /\ f = t
     /\ \A k \in 1..Len(h) : h[k].capture_time >= t.capture_time

\* f is a version of h captured strictly before t with no version of h captured
\* between them, or t itself when h has none captured before t
IsNearestOlderOrSelf(h, t, f) ==
  \/ \E k \in 1..Len(h) :
       /\ f = h[k]
       /\ h[k].capture_time < t.capture_time
       /\ \A j \in 1..Len(h) : h[j].capture_time < t.capture_time
                                 => h[j].capture_time <= f.capture_time
  \/ /\ f = t
     /\ \A k \in 1..Len(h) : h[k].capture_time >= t.capture_time

\* the view is a redirect to the change f..t of the page the route names
RedirectsTo(f, t) ==
  /\ View.kind = "Redirect"
  /\ View.from = Some(f)
  /\ View.to = Some(t)
  /\ View.url.pageId = pageId
  /\ View.url.change = Some(Template(f.uuid, t.uuid))

\* the view displays the pair (from, to), from possibly None
Displays(from, to) ==
  /\ View.kind = "ChangeView"
  /\ View.from = from
  /\ View.to = Some(to)

\* C2 as stated: a token "..t" whose toId matches version t of the loaded
\* history gives a displayed pair with from absent and to = t, never a redirect.
C2_EmptyFromDisplayed ==
  Committed =>
    \A i \in 1..Len(Hist) :
      Tok = Template(<<>>, Hist[i].uuid) => Displays(None, Hist[i])

\* C2 amended: a token "..t" whose toId matches version t of the loaded history
\* is never displayed with from absent; the view is a redirect that keeps
\* to = t and names as from the first version in history order captured
\* strictly before t, or t itself when there is none.
C2_EmptyFromRedirectsRelativeToTo ==
  Committed =>
    \A i \in 1..Len(Hist) :
      Tok = Template(<<>>, Hist[i].uuid) =>
        \E f \in {Hist[k] : k \in 1..Len(Hist)} :
          IsFirstOlderOrSelf(Hist, Hist[i], f) /\ RedirectsTo(f, Hist[i])

\* "..t" is on the route, t is not the latest version and has an older one
C2_Witness ==
  /\ Committed
  /\ \E i \in 2..Len(Hist) :
       /\ Tok = Template(<<>>, Hist[i].uuid)
       /\ \E k \in 1..Len(Hist) : Hist[k].capture_time < Hist[i].capture_time
       /\ View.kind = "Redirect"

\* C3 as stated: when fromId is non-empty and matches no version while toId
\* matches version t, the view is a redirect whose to is t itself and whose
\* from is the first version in history order captured strictly before t, or t.
C3_BadFromKeepsTo ==
  Committed =>
    \A i \in 1..Len(Hist) : \A u \in AllUuids \ HistUuids :
      Tok = Template(u, Hist[i].uuid) =>
        \E f \in {Hist[k] : k \in 1..Len(Hist)} :
          IsFirstOlderOrSelf(Hist, Hist[i], f) /\ RedirectsTo(f, Hist[i])

\* C3 amended: when fromId is non-empty and matches no version while toId
\* matches version t, the view is a redirect whose to is versions[0], the most
\* recent version, and whose from is the first version in history order
\* captured strictly before versions[0], or versions[0] itself.
C3_BadFromRedirectsToLatest ==
  Committed =>
    \A i \in 1..Len(Hist) : \A u \in AllUuids \ HistUuids :
      Tok = Template(u, Hist[i].uuid) =>
        \E f \in {Hist[k] : k \in 1..Len(Hist)} :
          IsFirstOlderOrSelf(Hist, Hist[1], f) /\ RedirectsTo(f, Hist[1])

\* an unknown from with a to that is an older, not the latest, version
C3_Witness ==
  /\ Committed
  /\ \E i \in 2..Len(Hist) : \E u \in AllUuids \ HistUuids :
       /\ Tok = Template(u, Hist[i].uuid)
       /\ Hist[i].capture_time < Hist[1].capture_time
       /\ View.kind = "Redirect"

\* C5: with a non-empty history and an empty or absent token the view is a
\* redirect whose to is versions[0] and whose from is the nearest strictly
\* older version, or to itself when no strictly older version exists.
C5_EmptyTokenRedirectsToLatest ==
  (Committed /\ Tok = <<>> /\ Len(Hist) >= 1) =>
    \E f \in {Hist[k] : k \in 1..Len(Hist)} :
      IsNearestOlderOrSelf(Hist, Hist[1], f) /\ RedirectsTo(f, Hist[1])

\* no token, three versions captured at three different times
C5_Witness ==
  /\ Committed
  /\ Tok = <<>>
  /\ Len(Hist) = 3
  /\ Hist[1].capture_time > Hist[2].capture_time
  /\ Hist[2].capture_time > Hist[3].capture_time
  /\ View.kind = "Redirect"

\* C6: when the token's toId matches no version, the view is a redirect (the
\* history has a version) or "no saved versions" (it has none), never a
\* displayed pair, whatever fromId is.
C6_UnknownToNeverDisplayed ==
  (Committed /\ (IsSome(Decode(change).toId) =>
                   Get(Decode(change).toId) \notin HistUuids)) =>
    View.kind = (IF Len(Hist) >= 1 THEN "Redirect" ELSE "NoVersions")

\* a from that names a version with a to that names none
C6_Witness ==
  /\ Committed
  /\ \E u \in HistUuids, v \in AllUuids \ HistUuids : Tok = Template(u, v)
  /\ View.kind = "Redirect"

\* C7: a token "f..t" whose two ids are uuids of versions of the history is
\* displayed as the pair (f, t), without redirect, whatever their capture times.
C7_KnownPairDisplayed ==
  Committed =>
    \A i, j \in 1..Len(Hist) :
      Tok = Template(Hist[i].uuid, Hist[j].uuid) =>
        Displays(Some(Hist[i]), Hist[j])

\* a displayed pair whose from was captured after its to
C7_Witness ==
  /\ Committed
  /\ \E i, j \in 1..Len(Hist) :
       /\ Tok = Template(Hist[i].uuid, Hist[j].uuid)
       /\ Hist[i].capture_time > Hist[j].capture_time
       /\ View.kind = "ChangeView"

\* C1: a load result is committed only while the route still names the page
\* it was requested for: every step that changes the committed page leaves a
\* page whose uuid is the route's pageId.
C1_StaleLoadDiscarded ==
  [][statePage' # statePage => Get(statePage').uuid = pageId']_vars

\* C4: a token without ".." decodes to fromId = "" and toId = the whole token,
\* so that a token that is the uuid of a version names that version as to;
\* stated for those tokens on the route of a loaded page.
C4_NoSeparatorIsTo ==
  (Committed /\ Tok \in HistUuids /\ FirstSep(Tok) = 0) =>
    Decode(change) = [fromId |-> <<>>, toId |-> Some(Tok)]

\* C8: once a page with an empty history is committed for the route's pageId,
\* the view is "no saved versions" and stays so in every step that leaves the
\* component mounted and the pageId unchanged.
C8_NoVersionsUntilPageIdChanges ==
  [][(Committed /\ Get(statePage).uuid = pageId /\ Hist = <<>>
        /\ phase' = "mounted" /\ pageId' = pageId)
       => View'.kind = "NoVersions"]_vars

\* C9: while the route names a page other than the committed one, the view is
\* the loading state: no pair is displayed and no redirect is issued from the
\* previously committed page's versions.
C9_LoadingWhilePageIdDiffers ==
  (Committed /\ Get(statePage).uuid # pageId) => View.kind = "Loading"

\* C10: a URL the component produces without a page argument carries the uuid
\* of the committed page, and the versions a produced URL names belong to the
\* page it names.
C10_ProducedUrlNamesOwnVersions ==
  /\ (Mounted /\ View.kind = "Redirect") =>
       View.url.pageId = Get(statePage).uuid
  /\ (path = "page" /\ via \in {"push", "replace", "redirect"} /\ IsSome(change))
       => \E u, v \in VersionUuids(pageId) : Get(change) = Template(u, v)

\* no '.' in s
DotFree(s) == \A i \in 1..Len(s) : s[i] # Dot

\* the change token _getChangeUrl gives the pair (a, b)
Encode(a, b) == _getChangeUrl(Some(a), Some(b), None, pageId).change

\* C11: for any two versions a, b of the history (a = b allowed) whose uuids
\* contain no '.', decoding the token that _getChangeUrl produces for (a, b)
\* gives fromId = a.uuid and toId = b.uuid.
C11_RoundTrip ==
  Committed =>
    \A i, j \in 1..Len(Hist) :
      (DotFree(Hist[i].uuid) /\ DotFree(Hist[j].uuid)) =>
        Decode(Encode(Hist[i], Hist[j])) =
          [fromId |-> Hist[i].uuid, toId |-> Some(Hist[j].uuid)]

\* the route carries the token the component produced for two different
\* versions with dot-free uuids, one of them two characters long, and the
\* pair it decodes to is displayed
C11_Witness ==
  /\ Committed
  /\ via \in {"push", "replace", "redirect"}
  /\ \E i, j \in 1..Len(Hist) :
       /\ i # j
       /\ DotFree(Hist[i].uuid) /\ DotFree(Hist[j].uuid)
       /\ Len(Hist[i].uuid) = 2
       /\ change = Encode(Hist[i], Hist[j])
       /\ Displays(Some(Hist[i]), Hist[j])

\* C12: the change token of every route the component produces, by a
\* navigation or a redirect, is either absent or "{from.uuid}..{to.uuid}" with
\* both uuids present, and _getChangeUrl produces no token whenever from or
\* to (or both) is absent.
C12_NoPartialEncodings ==
  /\ (path = "page" /\ via \in {"push", "replace", "redirect"}) =>
       \/ change = None
       \/ \E u, v \in AllUuids : change = Some(Template(u, v))
  /\ Mounted =>
       \A from, to \in OptVersions :
         (~IsSome(from) \/ ~IsSome(to)) =>
           _getChangeUrl(from, to, None, pageId).change = None

\* the component navigated with a version missing: the route it produced by
\* a push has no token
C12_Witness ==
  /\ Committed
  /\ Len(Hist) >= 1
  /\ path = "page"
  /\ via = "push"
  /\ change = None

\* the location: the route parameters and the history method that gave them
Location == <<path, pageId, change, via>>

C14_OneListenerWhileMounted ==
  listeners = (IF phase = "mounted" THEN 1 ELSE 0)

\* a component constructed after an earlier one was unmounted: the earlier
\* listener is gone
C14_Witness ==
  /\ phase = "constructed"
  /\ IsSome(change)
  /\ listeners = 0

\* C15: while the component is mounted and can receive a key event (loading,
\* displaying a pair or showing "no saved versions"; a <Redirect> is replaced
\* before any event is delivered), Escape always gives a push of the root
\* path, and any other key is handled without navigation or state change.
C15_EscapeNavigatesToRoot ==
  Idle =>
    /\ ENABLED KeyDown(EscapeKeyCode)
    /\ ~ENABLED (KeyDown(EscapeKeyCode) /\ ~(path' = "root" /\ via' = "push"))
    /\ \A k \in KeyCodes \ {EscapeKeyCode} :
         /\ ENABLED KeyDown(k)
         /\ ~ENABLED (KeyDown(k) /\ vars' # vars)

\* Escape was pressed while "no saved versions" was on screen
C15_Witness ==
  /\ path = "root"
  /\ via = "push"
  /\ IsSome(statePage)
  /\ Get(statePage).versions = <<>>

\* the links of pager are those of position i (1-based) of list: the page
\* before it unless i is the first position, the page after it unless i is
\* the last
AdjacentLinks(list, i, pager) ==
  /\ pager.previous = (IF i > 1 THEN Some(list[i - 1].uuid) ELSE None)
  /\ pager.next = (IF i < Len(list) THEN Some(list[i + 1].uuid) ELSE None)

\* C16: for every list of sibling pages, when the committed page's uuid is at
\* position i the previous link targets the page at i - 1 unless i is the
\* first position and the next link targets the page at i + 1 unless i is the
\* last; when the committed page is not in the list both links are the
\* placeholder; the pager is always computed.
C16_PagerAdjacency ==
  (Committed /\ IsSome(pages)) =>
    /\ IsSome(Pager)
    /\ \A i \in 1..Len(Get(pages)) :
         Get(pages)[i].uuid = Get(statePage).uuid =>
           AdjacentLinks(Get(pages), i, Get(Pager))
    /\ (\A i \in 1..Len(Get(pages)) :
          Get(pages)[i].uuid # Get(statePage).uuid) =>
         Get(Pager) = [previous |-> None, next |-> None]

\* three siblings, the committed page in the middle: both links navigate
C16_Witness ==
  /\ Committed
  /\ IsSome(pages)
  /\ Len(Get(pages)) = 3
  /\ Get(pages)[2].uuid = Get(statePage).uuid
  /\ Get(Pager) = [previous |-> Some(Get(pages)[1].uuid),
                   next |-> Some(Get(pages)[3].uuid)]

\* the known pages hold entry e for pid, and e carries a version history
Listed(pid, e) ==
  /\ IsSome(pages)
  /\ \E i \in 1..Len(Get(pages)) : Get(pages)[i] = e
  /\ e.uuid = pid
  /\ IsSome(e.versions)

ListedEntries(pid) ==
  IF IsSome(pages)
  THEN {Get(pages)[i] : i \in {j \in 1..Len(Get(pages)) :
                                  Listed(pid, Get(pages)[j])}}
  ELSE {}

\* the steps in which _loadPage is called: the mount and a change of pageId
LoadStarts ==
  \/ phase = "constructed" /\ phase' = "mounted"
  \/ pageId' # pageId

\* C17: a load of pageId sends getPage(pageId) to the backend if and only if
\* the known pages hold no page with that uuid that carries a version history;
\* when they hold one, no request is sent and that page is the one committed.
C17_BackendOnlyWhenNotListed ==
  [][/\ LoadStarts =>
          IF ListedEntries(pageId') = {}
          THEN /\ pending' = [pending EXCEPT ![pageId'] = @ + 1]
               /\ microtask' = microtask
          ELSE /\ pending' = pending
               /\ \E e \in ListedEntries(pageId') :
                    microtask' = Some(Page(pageId', Get(e.versions)))
     /\ (\E p \in PageIds : pending'[p] > pending[p]) => LoadStarts
     /\ (IsSome(microtask) /\ ~IsSome(microtask') /\ phase' = "mounted")
          => statePage' = microtask]_vars

\* the route's page was committed from the list of known pages, and no
\* request is or was in flight for it
C17_Witness ==
  /\ Committed
  /\ ListedEntries(pageId) # {}
  /\ \E e \in ListedEntries(pageId) :
       statePage = Some(Page(pageId, Get(e.versions)))
  /\ Len(Get(pages)) = 3
  /\ PendingCount = 0

\* what is rendered once the route is the URL of the redirect on screen
RedirectTarget == render(statePage, View.url.pageId, View.url.change)

\* C18: for a committed page with a non-empty history, whatever the token,
\* the token of a corrective redirect resolves on the same history to the pair
\* the redirect names, the step after a redirect puts that token on the route
\* of the same page (one redirect, then the pair is displayed: no chain, no
\* loop), and no step from a displayed pair is a redirect.
C18_RedirectConverges ==
  /\ []((Committed /\ View.kind = "Redirect") =>
          /\ Len(Hist) >= 1
          /\ View.url.pageId = pageId
          /\ RedirectTarget = [kind |-> "ChangeView", from |-> View.from,
                               to |-> View.to, url |-> None])
  /\ [][(Committed /\ statePage' = statePage) =>
          /\ View.kind = "Redirect" =>
               /\ pageId' = View.url.pageId
               /\ change' = View.url.change
               /\ via' = "redirect"
               /\ phase' = "mounted"
          /\ View.kind = "ChangeView" =>
               (via' # "redirect" \/ Location' = Location)]_vars

\* a redirect was made from an invalid token on a history of three versions
\* and the pair of two different versions it named is displayed
C18_Witness ==
  /\ Committed
  /\ Len(Hist) = 3
  /\ via = "redirect"
  /\ View.kind = "ChangeView"
  /\ Get(View.from).capture_time < Get(View.to).capture_time
  /\ View.to # Some(Hist[1])

\* everything but the count of requests in flight
AllButPending ==
  <<phase, path, pageId, change, via, pages, statePage, microtask, listeners, db>>

\* no request is in flight or queued and no page is committed
LoadLost ==
  /\ Mounted
  /\ ~IsSome(statePage)
  /\ PendingCount = 0
  /\ ~IsSome(microtask)

\* C19: a rejection of getPage(p) changes nothing but the request it ends:
\* the committed page, the route and the view stay as they were, no redirect
\* is issued and no error is shown; when it was the only load and no page was
\* committed, the view is the loading state and no later step commits a page
\* as long as the pageId of the route stays the same.
C19_RejectionChangesNothing ==
  /\ \A p \in PageIds :
       pending[p] > 0 =>
         /\ ENABLED Rejected(p)
         /\ ~ENABLED (Rejected(p) /\ AllButPending' # AllButPending)
  /\ LoadLost =>
       /\ View.kind = "Loading"
       /\ ~ENABLED (Next /\ pageId' = pageId /\ IsSome(statePage'))

\* the only request was rejected before any page was committed
C19_Witness ==
  /\ LoadLost
  /\ ~IsSome(pages)
  /\ IsSome(change)

\* C20: a prop update that leaves the pageId as it is and changes the change
\* token, the component's own corrective redirect included, starts no load:
\* no getPage request goes out, no then-callback is queued and the committed
\* page stays; a load starts only at the mount and when the pageId changes.
C20_TokenUpdateLoadsNothing ==
  [][/\ (Mounted /\ phase' = "mounted" /\ pageId' = pageId
          /\ (change' # change \/ via' # via))
          => (pending' = pending /\ microtask' = microtask
                /\ statePage' = statePage)
     /\ (\/ \E p \in PageIds : pending'[p] > pending[p]
         \/ (IsSome(microtask') /\ microtask' # microtask))
          => LoadStarts]_vars

\* the page came from the one request of the mount, and after the corrective
\* redirect of the token nothing is in flight
C20_Witness ==
  /\ Committed
  /\ Get(statePage).uuid = pageId
  /\ ~IsSome(pages)
  /\ via = "redirect"
  /\ PendingCount = 0

====
